---- MODULE Spec2Model ----
(***************************************************************************)
(* Sub2Anki: the dictation card of src/audio.py and src/template.py.       *)
(*                                                                         *)
(* The front template (CUSTOM_FRONT_TEMPLATE) grades what the learner      *)
(* types against the reference sentence, fills words in on the hint        *)
(* character, accumulates a ledger of mistakes and writes it to            *)
(* window.sessionStorage; the back template (CUSTOM_BACK_TEMPLATE) reads   *)
(* the ledger back, highlights the sentence and renders the table.         *)
(*                                                                         *)
(* create_anki_deck builds the notes of a deck: parse_subtitles reads the  *)
(* subtitle file with parse_lrc or parse_srt, and every line with a text   *)
(* becomes a clip of the audio track and a note.                           *)
(*                                                                         *)
(* Text is a sequence of one-character strings, so that trimming,          *)
(* splitting and the regular expressions of the scripts and of the parsers *)
(* are computed and not assumed.  A JavaScript object is a record          *)
(* [keys, vals]: its own property names in insertion order and their       *)
(* values.                                                                 *)
(*                                                                         *)
(* Spec and SpecEmptySentence are the card of one note and SpecReview a    *)
(* session in which the card is shown again; SpecLrc and SpecSrt are one   *)
(* call of create_anki_deck for an LRC and for an SRT file, and SpecBatch  *)
(* the run of the script for all configurations, with the failures of the  *)
(* files and of the audio tools.                                           *)
(***************************************************************************)
EXTENDS Integers, Sequences, FiniteSets, TLC

VARIABLES
    sentence,            \* the {{Text_en}} field of the note
    correctWords,        \* front: correctWords
    value,               \* front: userInput.value
    placeholderIndices,  \* front: placeholderIndices (used through includes only)
    hintUsed,            \* front: the indices i with hintUsed[i] = true
    mistakes,            \* front: the mistakes object
    feedbackDisplay,     \* front: what feedbackDisplay.innerHTML shows
    currentHint,         \* front: the index given to updateHintHighlight
    sessionStorage,      \* window.sessionStorage, shared by both sides
    side,                \* which template of the card is on screen
    backView,            \* back: the highlighted sentence and the table
    lastPass,            \* the locals of the most recent checkTyping call,
                         \* with the input of the call before it and the
                         \* text that call left
    recorded,            \* every <<index, word>> pushed to mistakes so far
    passes,              \* number of input events so far
    hintContent,         \* front: the texts of the spans of hintContent
    initThrew,           \* front: the script raised before its last line
    audioPlayer,         \* the <audio> element of the side on screen
    suffix,              \* build: config.subtitle_file.suffix
    content,             \* build: the text of the subtitle file
    audioLength,         \* build: len(audio), in milliseconds
    subs,                \* build: the list parse_subtitles returned
    pc,                  \* build: where create_anki_deck stands
    lineIndex,           \* build: the iterations of the loop done so far
    notes,               \* build: the notes appended, with their clips
    queue,               \* script: the configurations not yet finished,
                         \* the one being built first
    fault,               \* build: what fails for this configuration
    disk                 \* script: what the build of each configuration
                         \* started has written

\* the state of the card scripts
cardVars == <<sentence, correctWords, value, placeholderIndices, hintUsed,
              mistakes, feedbackDisplay, currentHint, sessionStorage, side,
              backView, lastPass, recorded, passes, hintContent, initThrew,
              audioPlayer>>

\* the state of one call of create_anki_deck and of the loop around it
buildVars == <<suffix, content, audioLength, subs, pc, lineIndex, notes,
               queue, fault, disk>>

vars == <<cardVars, buildVars>>

\* no deck is being built
NoBuild ==
    /\ suffix = ""
    /\ content = <<>>
    /\ audioLength = 0
    /\ subs = <<>>
    /\ pc = "card"
    /\ lineIndex = 0
    /\ notes = <<>>
    /\ queue = <<>>
    /\ fault = "none"
    /\ disk = <<>>

-----------------------------------------------------------------------------
(* Bounds of the exploration.                                              *)

\* input events explored on one front instance
MaxPasses == 3

\* lines of an LRC file
MaxLrcLines == 3

\* records of an SRT file
MaxSrtRecords == 2

-----------------------------------------------------------------------------
(* Characters and strings.                                                 *)

\* the characters matched by \s and removed by trim() that the model types
WhiteSpace == {" ", "\n", "\t"}

\* the character class of /[.,!?"]$/ (front, grading)
GradePunct == {".", ",", "!", "?", "\""}

\* the character class of /[.,!?";]/g (back, highlighting)
CleanPunct == {".", ",", "!", "?", "\"", ";"}

\* the card id shared by the two sides ({{UUID}})
cardId == "uuid-1"

toLowerCaseChar(c) ==
    CASE c = "A" -> "a"
      [] c = "B" -> "b"
      [] OTHER -> c

toLowerCase(s) == [i \in 1..Len(s) |-> toLowerCaseChar(s[i])]

RECURSIVE trimStart(_)
trimStart(s) ==
    IF s # <<>> /\ Head(s) \in WhiteSpace THEN trimStart(Tail(s)) ELSE s

RECURSIVE trimEnd(_)
trimEnd(s) ==
    IF s # <<>> /\ s[Len(s)] \in WhiteSpace
    THEN trimEnd(SubSeq(s, 1, Len(s) - 1))
    ELSE s

trim(s) == trimEnd(trimStart(s))

\* length of the longest prefix of s without a character of set stop
RECURSIVE prefixLen(_, _)
prefixLen(s, stop) ==
    IF s = <<>> \/ Head(s) \in stop THEN 0 ELSE 1 + prefixLen(Tail(s), stop)

\* the maximal runs of non-whitespace of s, in order
RECURSIVE wordRuns(_)
wordRuns(s) ==
    IF s = <<>> THEN <<>>
    ELSE IF Head(s) \in WhiteSpace THEN wordRuns(Tail(s))
    ELSE LET n == prefixLen(s, WhiteSpace)
         IN  <<SubSeq(s, 1, n)>> \o wordRuns(SubSeq(s, n + 1, Len(s)))

\* s.split(/\s+/): an empty string where s starts or ends with whitespace,
\* and [""] for the empty string
splitWhitespace(s) ==
    IF s = <<>> THEN << <<>> >>
    ELSE (IF s[1] \in WhiteSpace THEN << <<>> >> ELSE <<>>)
         \o wordRuns(s)
         \o (IF s[Len(s)] \in WhiteSpace THEN << <<>> >> ELSE <<>>)

\* s.replace(/\s+/g, " ")
RECURSIVE collapseWhitespace(_)
collapseWhitespace(s) ==
    IF s = <<>> THEN <<>>
    ELSE IF Head(s) \in WhiteSpace
         THEN <<" ">> \o collapseWhitespace(trimStart(s))
         ELSE <<Head(s)>> \o collapseWhitespace(Tail(s))

\* s.split(" ")
RECURSIVE splitSpace(_)
splitSpace(s) ==
    LET n == prefixLen(s, {" "})
    IN  IF n = Len(s) THEN <<s>>
        ELSE <<SubSeq(s, 1, n)>> \o splitSpace(SubSeq(s, n + 2, Len(s)))

\* s.slice(-1) === c
endsWith(s, c) == s # <<>> /\ s[Len(s)] = c

\* w.toLowerCase().replace(/[.,!?"]$/, "")
gradeForm(w) ==
    LET l == toLowerCase(w)
    IN  IF l # <<>> /\ l[Len(l)] \in GradePunct
        THEN SubSeq(l, 1, Len(l) - 1)
        ELSE l

\* w.toLowerCase().replace(/[.,!?";]/g, '')
cleanForm(w) ==
    LET l == toLowerCase(w)
        keep(c) == c \notin CleanPunct
    IN  SelectSeq(l, keep)

\* parts.join(sep)
RECURSIVE join(_, _)
join(parts, sep) ==
    IF parts = <<>> THEN <<>>
    ELSE IF Len(parts) = 1 THEN parts[1]
    ELSE parts[1] \o sep \o join(Tail(parts), sep)

\* String(n) for the small counts the model reaches
RECURSIVE toString(_)
toString(n) ==
    LET digit == <<"0", "1", "2", "3", "4", "5", "6", "7", "8", "9">>
    IN  IF n < 10 THEN <<digit[n + 1]>>
        ELSE toString(n \div 10) \o <<digit[(n % 10) + 1]>>

-----------------------------------------------------------------------------
(* JavaScript objects created by {} and their JSON text.                   *)

\* the word "constructor"
Constructor == <<"c", "o", "n", "s", "t", "r", "u", "c", "t", "o", "r">>

\* Property names every object created by {} inherits from Object.prototype
\* with a function as value (toString, valueOf, ... are further ones); of
\* these the model's sentences use "constructor".
ObjectPrototypeKeys == {Constructor}

emptyObject == [keys |-> <<>>, vals |-> <<>>]

hasOwn(o, k) == \E i \in 1..Len(o.keys) : o.keys[i] = k

indexOfKey(o, k) == CHOOSE i \in 1..Len(o.keys) : o.keys[i] = k

\* o[k] of an own property
getOwn(o, k) == o.vals[indexOfKey(o, k)]

\* whether o[k] is truthy: an own array is, and so is an inherited function
truthy(o, k) == hasOwn(o, k) \/ k \in ObjectPrototypeKeys

\* o[k] = v
setProp(o, k, v) ==
    IF hasOwn(o, k)
    THEN [o EXCEPT !.vals[indexOfKey(o, k)] = v]
    ELSE [keys |-> Append(o.keys, k), vals |-> Append(o.vals, v)]

\* arr.includes(x)
includes(arr, x) == \E i \in 1..Len(arr) : arr[i] = x

\* JSON.stringify(o) of an object of string arrays: the members in property
\* order, each a pair of the name and the array
JSONstringify(o) == [i \in 1..Len(o.keys) |-> <<o.keys[i], o.vals[i]>>]

\* JSON.parse(text) of such a text
JSONparse(text) ==
    [keys |-> [i \in 1..Len(text) |-> text[i][1]],
     vals |-> [i \in 1..Len(text) |-> text[i][2]]]

\* whether sessionStorage.getItem(k) is not null
hasItem(store, k) == k \in DOMAIN store

\* sessionStorage.getItem(k) of a stored item
getItem(store, k) == store[k]

\* sessionStorage.setItem(k, v)
setItem(store, k, v) ==
    [x \in DOMAIN store \cup {k} |-> IF x = k THEN v ELSE store[x]]

mistakesKey == <<"mistakes-", cardId>>
typedWordCountKey == <<"typedWordCount-", cardId>>

-----------------------------------------------------------------------------
(* Front template: data initialization.                                    *)

\* correctAnswerDiv.textContent.trim().split(/\s+/)
initCorrectWords(text) == splitWhitespace(trim(text))

\* c.repeat(n) for n >= 0
repeat(c, n) == [i \in 1..n |-> c]

\* displayInitialHint: one span per word, its first character followed by
\* word.length - 1 underscores.  "_".repeat(-1) raises a RangeError: the
\* forEach stops there, the spans appended so far stay, and neither
\* hintArea is shown nor updateHintHighlight(0) called.
RECURSIVE displayInitialHint(_)
displayInitialHint(words) ==
    IF words = <<>> THEN [spans |-> <<>>, threw |-> FALSE]
    ELSE IF Len(Head(words)) - 1 < 0 THEN [spans |-> <<>>, threw |-> TRUE]
    ELSE LET word == Head(words)
             rest == displayInitialHint(Tail(words))
         IN  [spans |-> <<<<word[1]>> \o repeat("_", Len(word) - 1)>>
                        \o rest.spans,
              threw |-> rest.threw]

-----------------------------------------------------------------------------
(* The audio element and its buttons.                                      *)

\* the arguments of setPlaySpeed on the buttons, in hundredths
Speeds == {50, 75, 100}

\* <audio controls autoplay>: not looping, played at the normal rate
audioElement == [loop |-> FALSE, playbackRate |-> 100]

\* the front script defaults to loop enabled in its last statement, which
\* is not reached when displayInitialHint raised
frontAudio(threw) ==
    IF threw THEN audioElement ELSE [audioElement EXCEPT !.loop = TRUE]

-----------------------------------------------------------------------------
(* Front template: checkTyping.                                            *)

\* Variant of hintLogic that counts only the words already followed by
\* whitespace, not the word still being typed.
hintLogicCommittedOnly(input, words, ph, hu) ==
    IF endsWith(input, "#")
    THEN LET stripped == SubSeq(input, 1, Len(input) - 1)
             runs == wordRuns(stripped)
             nextWordIndex ==
                 IF stripped # <<>> /\ stripped[Len(stripped)] \notin WhiteSpace
                 THEN Len(runs) - 1 ELSE Len(runs)
         IN  IF nextWordIndex < Len(words)
             THEN [value |-> stripped
                             \o (IF endsWith(stripped, " ") \/ stripped = <<>>
                                 THEN <<>> ELSE <<" ">>)
                             \o words[nextWordIndex + 1] \o <<" ">>,
                   placeholderIndices |-> ph \cup {nextWordIndex},
                   hintUsed |-> hu \cup {nextWordIndex},
                   revealed |-> nextWordIndex]
             ELSE [value |-> stripped, placeholderIndices |-> ph,
                   hintUsed |-> hu, revealed |-> -1]
    ELSE [value |-> input, placeholderIndices |-> ph, hintUsed |-> hu,
          revealed |-> -1]

\* Variant of hintLogic that leaves the "#" in the input when no word is
\* left to reveal.
hintLogicKeepingMarker(input, words, ph, hu) ==
    IF endsWith(input, "#")
    THEN LET stripped == SubSeq(input, 1, Len(input) - 1)
             typedWordsBeforeHint ==
                 splitSpace(collapseWhitespace(trim(stripped)))
             nextWordIndex ==
                 IF typedWordsBeforeHint[1] = <<>> THEN 0
                 ELSE Len(typedWordsBeforeHint)
         IN  IF nextWordIndex < Len(words)
             THEN LET wordToReveal == words[nextWordIndex + 1]
                      sep == IF endsWith(stripped, " ") \/ stripped = <<>>
                             THEN <<>> ELSE <<" ">>
                  IN  [value |-> stripped \o sep \o wordToReveal \o <<" ">>,
                       placeholderIndices |-> ph \cup {nextWordIndex},
                       hintUsed |-> IF nextWordIndex \in ph THEN hu
                                    ELSE hu \cup {nextWordIndex},
                       revealed |-> nextWordIndex]
             ELSE [value |-> input, placeholderIndices |-> ph,
                   hintUsed |-> hu, revealed |-> -1]
    ELSE [value |-> input, placeholderIndices |-> ph, hintUsed |-> hu,
          revealed |-> -1]

\* The hint logic: with the input ending in "#", the "#" is removed, the
\* words typed so far are counted and the word at that index is revealed.
\* Gives the new input, the new placeholderIndices and hintUsed, and the
\* index revealed (-1 when none was).
hintLogic(input, words, ph, hu) ==
    IF endsWith(input, "#")
    THEN LET stripped == SubSeq(input, 1, Len(input) - 1)
             typedWordsBeforeHint ==
                 splitSpace(collapseWhitespace(trim(stripped)))
             nextWordIndex ==
                 IF typedWordsBeforeHint[1] = <<>> THEN 0
                 ELSE Len(typedWordsBeforeHint)
         IN  IF nextWordIndex < Len(words)
             THEN LET wordToReveal == words[nextWordIndex + 1]
                      sep == IF endsWith(stripped, " ") \/ stripped = <<>>
                             THEN <<>> ELSE <<" ">>
                  IN  [value |-> stripped \o sep \o wordToReveal \o <<" ">>,
                       placeholderIndices |-> ph \cup {nextWordIndex},
                       hintUsed |-> IF nextWordIndex \in ph THEN hu
                                    ELSE hu \cup {nextWordIndex},
                       revealed |-> nextWordIndex]
             ELSE [value |-> stripped, placeholderIndices |-> ph,
                   hintUsed |-> hu, revealed |-> -1]
    ELSE [value |-> input, placeholderIndices |-> ph, hintUsed |-> hu,
          revealed |-> -1]

\* Tokenization: the completed words and the fragment still being typed.
tokenize(rawInput) ==
    LET endsWithSpace == endsWith(rawInput, " ") \/ endsWith(rawInput, "\n")
        typedWords == splitWhitespace(trim(rawInput))
    IN  IF ~endsWithSpace /\ trim(rawInput) # <<>>
        THEN [completedWords |-> SubSeq(typedWords, 1, Len(typedWords) - 1),
              currentWordFragment |-> typedWords[Len(typedWords)]]
        ELSE [completedWords |-> typedWords, currentWordFragment |-> <<>>]

\* The comparison of a typed word with the reference word.
isCorrectWord(word, correctWord) == gradeForm(word) = gradeForm(correctWord)

\* Variant of storesMistake without the test of placeholderIndices.
storesMistakeIgnoringHints(isCorrect, i, ph) == ~isCorrect

\* Whether the mistake of typing word at index i is to be stored.
storesMistake(isCorrect, i, ph) == ~isCorrect /\ i \notin ph

\* Variant of pushMistake that keeps only the latest attempt
\* (mistakes[correctWord] = [word]).
pushMistakeOverwriting(m, correctWord, word) ==
    setProp(m, correctWord, <<word>>)

\* Variant of pushMistake without the includes() test.
pushMistakeNoDedup(m, correctWord, word) ==
    LET m1 == IF truthy(m, correctWord) THEN m
              ELSE setProp(m, correctWord, <<>>)
    IN  setProp(m1, correctWord, Append(getOwn(m1, correctWord), word))

\* mistakes after the stored mistake: the array of correctWord is created
\* when mistakes[correctWord] is falsy, and word is pushed unless included.
\* (Called only where mistakes[correctWord] is an own array afterwards.)
pushMistake(m, correctWord, word) ==
    LET m1 == IF truthy(m, correctWord) THEN m
              ELSE setProp(m, correctWord, <<>>)
        arr == getOwn(m1, correctWord)
    IN  IF includes(arr, word) THEN m1
        ELSE setProp(m1, correctWord, Append(arr, word))

\* Variant of markHint that creates the entry without the marker
\* (mistakes[correctWord] = []).
markHintEmptyEntry(m, correctWord, i, hu) ==
    IF i \in hu /\ ~truthy(m, correctWord)
    THEN setProp(m, correctWord, <<>>)
    ELSE m

\* mistakes after the hint tracking of index i.
markHint(m, correctWord, i, hu) ==
    IF i \in hu /\ ~truthy(m, correctWord)
    THEN setProp(m, correctWord, << <<"#">> >>)
    ELSE m

\* One call of the forEach callback, on the word at index i (0-based).
\* st is the state of the loop: the mistakes object, the spans of feedback
\* built so far, the pairs <<index, word>> pushed, and whether the callback
\* threw.  mistakes[correctWord].includes throws a TypeError when
\* mistakes[correctWord] is the function inherited from Object.prototype.
gradeWord(st, word, i, words, ph, hu) ==
    IF word = <<>> THEN st
    ELSE IF i < Len(words)
    THEN LET correctWord == words[i + 1]
             isCorrect == isCorrectWord(word, correctWord)
             placeholder == IF i \in ph THEN {"placeholder-word"} ELSE {}
             span == [text |-> word \o <<" ">>,
                      classes |-> (IF isCorrect THEN {"correct"}
                                   ELSE {"incorrect"}) \cup placeholder]
         IN  IF storesMistake(isCorrect, i, ph)
             THEN IF truthy(st.mistakes, correctWord)
                     /\ ~hasOwn(st.mistakes, correctWord)
                  THEN [st EXCEPT !.threw = TRUE]
                  ELSE LET m1 == pushMistake(st.mistakes, correctWord, word)
                       IN  [mistakes |-> markHint(m1, correctWord, i, hu),
                            spans |-> Append(st.spans, span),
                            pushed |-> IF m1 = st.mistakes THEN st.pushed
                                       ELSE st.pushed \cup {<<i, word>>},
                            threw |-> FALSE]
             ELSE [st EXCEPT
                     !.mistakes = markHint(st.mistakes, correctWord, i, hu),
                     !.spans = Append(st.spans, span)]
    ELSE LET placeholder == IF i \in ph THEN {"placeholder-word"} ELSE {}
         IN  [st EXCEPT !.spans = Append(st.spans,
                 [text |-> word \o <<" ">>,
                  classes |-> {"incorrect"} \cup placeholder])]

\* completedWords.forEach(...): the callback on every index in order, up to
\* the one that throws.
RECURSIVE forEachWord(_, _, _, _, _, _)
forEachWord(st, completedWords, i, words, ph, hu) ==
    IF i >= Len(completedWords) \/ st.threw THEN st
    ELSE forEachWord(gradeWord(st, completedWords[i + 1], i, words, ph, hu),
                     completedWords, i + 1, words, ph, hu)

\* checkTyping() with userInput.value = input: the state it leaves.  When
\* the forEach callback throws, the statements after the loop (the render
\* of the feedback, updateHintHighlight and the two setItem calls) do not
\* run; what the hint logic and the loop already changed stays changed.
checkTypingResult(input, words, ph, hu, m, fb, hint, store) ==
    LET h == hintLogic(input, words, ph, hu)
        t == tokenize(h.value)
        st == forEachWord([mistakes |-> m, spans |-> <<>>, pushed |-> {},
                           threw |-> FALSE],
                          t.completedWords, 0, words,
                          h.placeholderIndices, h.hintUsed)
    IN  [value |-> h.value,
         placeholderIndices |-> h.placeholderIndices,
         hintUsed |-> h.hintUsed,
         mistakes |-> st.mistakes,
         feedbackDisplay |->
             IF st.threw THEN fb
             ELSE [spans |-> st.spans, fragment |-> t.currentWordFragment],
         currentHint |->
             IF st.threw THEN hint ELSE Len(t.completedWords),
         sessionStorage |->
             IF st.threw THEN store
             ELSE setItem(setItem(store, mistakesKey,
                                  JSONstringify(st.mistakes)),
                          typedWordCountKey,
                          toString(Len(t.completedWords))),
         lastPass |-> [ran |-> TRUE, rawInput |-> input,
                       inputBefore |-> <<>>, textBefore |-> <<>>,
                       revealed |-> h.revealed,
                       completedWords |-> t.completedWords,
                       fragment |-> t.currentWordFragment,
                       spans |-> st.spans, pushed |-> st.pushed,
                       threw |-> st.threw]]

-----------------------------------------------------------------------------
(* Back template: the render of the answer.                                *)

\* The wordPositions loop throws a TypeError (caught by the catch around
\* the render) when a cleaned word names a property inherited from
\* Object.prototype: wordPositions[cleanWord] is then a function, which has
\* no push.
wordPositionsThrows(words) ==
    \E i \in 1..Len(words) : cleanForm(words[i]) \in ObjectPrototypeKeys

\* The indices (0-based) of the words of the sentence that are wrapped in
\* <span class="mistake-word">: those whose cleaned form is the cleaned form
\* of a key of the mistakes read from the store.
mistakeIndicesOf(words, m) ==
    {i \in 0..(Len(words) - 1) :
        \E k \in 1..Len(m.keys) :
            cleanForm(m.keys[k]) = cleanForm(words[i + 1])}

\* The rows of the mistakes table: the correct word and the joined attempts.
tableRows(m) ==
    [k \in 1..Len(m.keys) |-> <<m.keys[k], join(m.vals[k], <<",", " ">>)>>]

noBackView ==
    [rendered |-> FALSE, highlighted |-> FALSE, mistakeIndices |-> {},
     table |-> <<>>, error |-> FALSE]

\* The script of the back template.
backRender(store, sentenceText) ==
    IF ~hasItem(store, mistakesKey)
    THEN [noBackView EXCEPT !.rendered = TRUE]
    ELSE LET m == JSONparse(getItem(store, mistakesKey))
             words == splitWhitespace(sentenceText)
         IN  IF Len(m.keys) = 0
             THEN [noBackView EXCEPT !.rendered = TRUE]
             ELSE IF wordPositionsThrows(words)
             THEN [noBackView EXCEPT !.rendered = TRUE, !.error = TRUE]
             ELSE [rendered |-> TRUE, highlighted |-> TRUE,
                   mistakeIndices |-> mistakeIndicesOf(words, m),
                   table |-> tableRows(m), error |-> FALSE]

-----------------------------------------------------------------------------
(* The notes and the input events explored.                                *)

\* the sentences ({{Text_en}}) of the notes explored; the parsers strip
\* the text, so a sentence has no whitespace at either end
Sentences ==
    { <<"a", " ", "b", " ", "a">>,
      <<"a", ".", ".", " ", "a", ";">>,
      <<"a", " ">> \o Constructor }

\* the texts an input event adds: a character typed or a text pasted
Pieces ==
    { <<"a">>, <<"b">>, <<"A", ".">>, <<".">>, <<" ">>, <<"\n">>, <<"\t">>,
      <<"#">>, <<"b", " ", "b", " ">> }

noPass ==
    [ran |-> FALSE, rawInput |-> <<>>, inputBefore |-> <<>>,
     textBefore |-> <<>>, revealed |-> -1,
     completedWords |-> <<>>, fragment |-> <<>>, spans |-> <<>>,
     pushed |-> {}, threw |-> FALSE]

-----------------------------------------------------------------------------
(* The state machine.                                                      *)

\* The front template is rendered for a note whose {{Text_en}} is text: the
\* script runs from its data initialization to its last statement, or to
\* the statement that raises.
FrontRender(text) ==
    /\ sentence = text
    /\ correctWords = initCorrectWords(text)
    /\ value = <<>>
    /\ placeholderIndices = {}
    /\ hintUsed = {}
    /\ mistakes = emptyObject
    /\ feedbackDisplay = [spans |-> <<>>, fragment |-> <<>>]
    /\ sessionStorage = <<>>
    /\ side = "front"
    /\ backView = noBackView
    /\ lastPass = noPass
    /\ recorded = {}
    /\ passes = 0
    /\ \E h \in {displayInitialHint(initCorrectWords(text))} :
        /\ hintContent = h.spans
        /\ initThrew = h.threw
        /\ currentHint = IF h.threw THEN -1 ELSE 0
        /\ audioPlayer = frontAudio(h.threw)
    /\ NoBuild

Init == \E text \in Sentences : FrontRender(text)

\* oninput: the textarea holds input and checkTyping runs.
checkTyping(input) ==
    /\ side = "front"
    /\ passes < MaxPasses
    /\ \E r \in {checkTypingResult(input, correctWords, placeholderIndices,
                                  hintUsed, mistakes, feedbackDisplay,
                                  currentHint, sessionStorage)} :
        /\ value' = r.value
        /\ placeholderIndices' = r.placeholderIndices
        /\ hintUsed' = r.hintUsed
        /\ mistakes' = r.mistakes
        /\ feedbackDisplay' = r.feedbackDisplay
        /\ currentHint' = r.currentHint
        /\ sessionStorage' = r.sessionStorage
        /\ lastPass' = [r.lastPass EXCEPT !.inputBefore = lastPass.rawInput,
                                        !.textBefore = value]
        /\ recorded' = recorded \cup r.lastPass.pushed
    /\ passes' = passes + 1
    /\ UNCHANGED <<sentence, correctWords, side, backView, hintContent,
                   initThrew, audioPlayer>>
    /\ UNCHANGED buildVars

\* The learner types or pastes a text at the end of the input.
TypeText == \E p \in Pieces : checkTyping(value \o p)

\* The learner deletes the last character.
Backspace ==
    /\ value # <<>>
    /\ checkTyping(SubSeq(value, 1, Len(value) - 1))

\* The learner replaces the whole input by a text.
ReplaceAll == \E p \in Pieces : checkTyping(p)

\* An input event that leaves the text as it is (a selection replaced by
\* the same text).
Retype == checkTyping(value)

\* The answer is shown: the back template is rendered for the same note,
\* with an audio element of its own.
ShowAnswer ==
    /\ side = "front"
    /\ side' = "back"
    /\ backView' = backRender(sessionStorage, sentence)
    /\ audioPlayer' = audioElement
    /\ UNCHANGED <<sentence, correctWords, value, placeholderIndices,
                   hintUsed, mistakes, feedbackDisplay, currentHint,
                   sessionStorage, lastPass, recorded, passes, hintContent,
                   initThrew>>
    /\ UNCHANGED buildVars

\* A speed button of the side on screen: cardHandlers[cardId].setPlaySpeed.
setPlaySpeed(speed) ==
    /\ audioPlayer' = [audioPlayer EXCEPT !.playbackRate = speed]
    /\ UNCHANGED <<sentence, correctWords, value, placeholderIndices,
                   hintUsed, mistakes, feedbackDisplay, currentHint,
                   sessionStorage, side, backView, lastPass, recorded,
                   passes, hintContent, initThrew>>
    /\ UNCHANGED buildVars

SetPlaySpeed == \E speed \in Speeds : setPlaySpeed(speed)

\* Variant of toggleLoop that also starts the ledger afresh.
toggleLoopResetting ==
    /\ audioPlayer' = [audioPlayer EXCEPT !.loop = ~audioPlayer.loop]
    /\ mistakes' = emptyObject
    /\ UNCHANGED <<sentence, correctWords, value, placeholderIndices,
                   hintUsed, feedbackDisplay, currentHint,
                   sessionStorage, side, backView, lastPass, recorded,
                   passes, hintContent, initThrew>>
    /\ UNCHANGED buildVars

\* The loop button of the side on screen: cardHandlers[cardId].toggleLoop.
toggleLoop ==
    /\ audioPlayer' = [audioPlayer EXCEPT !.loop = ~audioPlayer.loop]
    /\ UNCHANGED <<sentence, correctWords, value, placeholderIndices,
                   hintUsed, mistakes, feedbackDisplay, currentHint,
                   sessionStorage, side, backView, lastPass, recorded,
                   passes, hintContent, initThrew>>
    /\ UNCHANGED buildVars

Next ==
    \/ TypeText
    \/ Backspace
    \/ ReplaceAll
    \/ Retype
    \/ ShowAnswer
    \/ SetPlaySpeed
    \/ toggleLoop

Spec == Init /\ [][Next]_vars

\* The front template rendered for a note whose {{Text_en}} is empty.
InitEmptySentence == FrontRender(<<>>)

SpecEmptySentence == InitEmptySentence /\ [][Next]_vars

\* The front template is rendered again for the same note in the same
\* session (the card comes back after its answer): the script starts from
\* its initial values, and window.sessionStorage is what it was.
ShowFront ==
    /\ side = "back"
    /\ side' = "front"
    /\ value' = <<>>
    /\ placeholderIndices' = {}
    /\ hintUsed' = {}
    /\ mistakes' = emptyObject
    /\ feedbackDisplay' = [spans |-> <<>>, fragment |-> <<>>]
    /\ backView' = noBackView
    /\ lastPass' = noPass
    /\ recorded' = {}
    /\ \E h \in {displayInitialHint(correctWords)} :
        /\ hintContent' = h.spans
        /\ initThrew' = h.threw
        /\ currentHint' = IF h.threw THEN -1 ELSE 0
        /\ audioPlayer' = frontAudio(h.threw)
    /\ UNCHANGED <<sentence, correctWords, sessionStorage, passes>>
    /\ UNCHANGED buildVars

\* a session in which the learner types at the end of the input, asks for
\* the answer, and sees the card again
NextReview ==
    \/ TypeText
    \/ ShowAnswer
    \/ ShowFront

\* the notes of the sessions explored: those without a word that is the
\* name of a property of Object.prototype
ReviewSentences ==
    { text \in Sentences : ~wordPositionsThrows(initCorrectWords(text)) }

InitReview == \E text \in ReviewSentences : FrontRender(text)

SpecReview == InitReview /\ [][NextReview]_vars

-----------------------------------------------------------------------------
(* Python strings, as the subtitle parsers use them.                       *)

\* the characters matched by \d
Digits == {"0", "1", "2", "3", "4", "5", "6", "7", "8", "9"}

isDigits(s) == \A k \in 1..Len(s) : s[k] \in Digits

\* int(c) for one decimal digit
digitValue(c) ==
    CASE c = "0" -> 0 [] c = "1" -> 1 [] c = "2" -> 2 [] c = "3" -> 3
      [] c = "4" -> 4 [] c = "5" -> 5 [] c = "6" -> 6 [] c = "7" -> 7
      [] c = "8" -> 8 [] c = "9" -> 9

\* int(s) for a string of decimal digits
RECURSIVE int(_)
int(s) ==
    IF s = <<>> THEN 0
    ELSE 10 * int(SubSeq(s, 1, Len(s) - 1)) + digitValue(s[Len(s)])

\* s.strip()
strip(s) == trim(s)

\* s.split(c) for a one-character separator
RECURSIVE split(_, _)
split(s, c) ==
    LET n == prefixLen(s, {c})
    IN  IF n = Len(s) THEN <<s>>
        ELSE <<SubSeq(s, 1, n)>> \o split(SubSeq(s, n + 2, Len(s)), c)

\* s[from:] of a string, from counted from 1
suffixFrom(s, from) == SubSeq(s, from, Len(s))

\* the value None, and a string where None is possible
None == [isNone |-> TRUE, str |-> <<>>]

Some(s) == [isNone |-> FALSE, str |-> s]

SubtitleLine(start_time_ms, end_time_ms, text, translation) ==
    [start_time_ms |-> start_time_ms, end_time_ms |-> end_time_ms,
     text |-> text, translation |-> translation]

-----------------------------------------------------------------------------
(* parse_lrc.                                                              *)

\* the number of digits that \d{2,3} takes at position 8 of line in
\* ^\[(\d{2}):(\d{2})\.(\d{2,3})\] : three when "]" follows them, else two
\* when "]" follows them, else 0: no match
lrcFractionLen(line) ==
    IF Len(line) >= 11 /\ isDigits(SubSeq(line, 8, 10)) /\ line[11] = "]"
    THEN 3
    ELSE IF Len(line) >= 10 /\ isDigits(SubSeq(line, 8, 9)) /\ line[10] = "]"
    THEN 2
    ELSE 0

\* re.match(r"^\[(\d{2}):(\d{2})\.(\d{2,3})\]", line)
lrcTimestampMatch(line) ==
    /\ Len(line) >= 10
    /\ line[1] = "["
    /\ isDigits(SubSeq(line, 2, 3))
    /\ line[4] = ":"
    /\ isDigits(SubSeq(line, 5, 6))
    /\ line[7] = "."
    /\ lrcFractionLen(line) # 0

\* match.groups() of re.match(r"^\[(\d{2}):(\d{2})\.(\d{2,3})\](.*)", line)
lrcGroups(line) ==
    LET n == lrcFractionLen(line)
    IN  [minutes |-> SubSeq(line, 2, 3),
         seconds |-> SubSeq(line, 5, 6),
         hundredths |-> SubSeq(line, 8, 7 + n),
         text |-> suffixFrom(line, 9 + n)]

\* Variant of lrcFractionMs that reads every fraction as hundredths.
lrcFractionMsAsHundredths(hundredths) == int(hundredths) * 10

\* the milliseconds of the fraction group
lrcFractionMs(hundredths) ==
    IF Len(hundredths) = 2 THEN int(hundredths) * 10 ELSE int(hundredths)

\* time_ms of a matched line
lrcTimeMs(g) ==
    int(g.minutes) * 60000 + int(g.seconds) * 1000
        + lrcFractionMs(g.hundredths)

\* [line.strip() for line in content.strip().split("\n") if line.strip()]
lrcContentLines(fileText) ==
    LET stripped == [k \in DOMAIN split(strip(fileText), "\n") |->
                        strip(split(strip(fileText), "\n")[k])]
        nonEmpty(line) == line # <<>>
    IN  SelectSeq(stripped, nonEmpty)

\* Variant of lrcTimedLines that takes the next line as the translation
\* whatever it is.
RECURSIVE lrcTimedLinesAnyNext(_, _)
lrcTimedLinesAnyNext(content_lines, i) ==
    IF i > Len(content_lines) THEN <<>>
    ELSE IF lrcTimestampMatch(content_lines[i])
    THEN LET g == lrcGroups(content_lines[i])
             hasTranslation == i + 1 <= Len(content_lines)
         IN  <<[time_ms |-> lrcTimeMs(g),
                text |-> strip(g.text),
                translation |-> IF hasTranslation
                                THEN Some(content_lines[i + 1])
                                ELSE None]>>
             \o lrcTimedLinesAnyNext(content_lines,
                                     IF hasTranslation THEN i + 2 ELSE i + 1)
    ELSE lrcTimedLinesAnyNext(content_lines, i + 1)

\* Variant of lrcTimedLines that appends only the timed lines with a text.
RECURSIVE lrcTimedLinesWithText(_, _)
lrcTimedLinesWithText(content_lines, i) ==
    IF i > Len(content_lines) THEN <<>>
    ELSE IF lrcTimestampMatch(content_lines[i])
    THEN LET g == lrcGroups(content_lines[i])
             hasTranslation ==
                 /\ i + 1 <= Len(content_lines)
                 /\ ~lrcTimestampMatch(content_lines[i + 1])
         IN  (IF strip(g.text) # <<>>
              THEN <<[time_ms |-> lrcTimeMs(g),
                      text |-> strip(g.text),
                      translation |-> IF hasTranslation
                                      THEN Some(content_lines[i + 1])
                                      ELSE None]>>
              ELSE <<>>)
             \o lrcTimedLinesWithText(content_lines,
                                      IF hasTranslation THEN i + 2 ELSE i + 1)
    ELSE lrcTimedLinesWithText(content_lines, i + 1)

\* the while loop of parse_lrc from index i (counted from 1): the
\* timed_lines it appends
RECURSIVE lrcTimedLines(_, _)
lrcTimedLines(content_lines, i) ==
    IF i > Len(content_lines) THEN <<>>
    ELSE IF lrcTimestampMatch(content_lines[i])
    THEN LET g == lrcGroups(content_lines[i])
             hasTranslation ==
                 /\ i + 1 <= Len(content_lines)
                 /\ ~lrcTimestampMatch(content_lines[i + 1])
         IN  <<[time_ms |-> lrcTimeMs(g),
                text |-> strip(g.text),
                translation |-> IF hasTranslation
                                THEN Some(content_lines[i + 1])
                                ELSE None]>>
             \o lrcTimedLines(content_lines,
                              IF hasTranslation THEN i + 2 ELSE i + 1)
    ELSE lrcTimedLines(content_lines, i + 1)

\* Variant of lrcRecords that ends a record at the next timed line that
\* has a text, and leaves it open when there is none.
RECURSIVE lrcRecordsToNextText(_, _)
lrcRecordsToNextText(timed_lines, i) ==
    IF i > Len(timed_lines) THEN <<>>
    ELSE LET later == { k \in (i + 1)..Len(timed_lines) :
                          timed_lines[k].text # <<>> }
             end_time_ms ==
                 IF later # {}
                 THEN timed_lines[CHOOSE k \in later :
                                     \A l \in later : k <= l].time_ms
                 ELSE -1
         IN  (IF timed_lines[i].text # <<>>
              THEN <<SubtitleLine(timed_lines[i].time_ms, end_time_ms,
                                  timed_lines[i].text,
                                  timed_lines[i].translation)>>
              ELSE <<>>)
             \o lrcRecordsToNextText(timed_lines, i + 1)

\* the for loop of parse_lrc from index i (counted from 1): the
\* SubtitleLines it appends
RECURSIVE lrcRecords(_, _)
lrcRecords(timed_lines, i) ==
    IF i > Len(timed_lines) THEN <<>>
    ELSE LET end_time_ms == IF i + 1 <= Len(timed_lines)
                            THEN timed_lines[i + 1].time_ms
                            ELSE -1
         IN  (IF timed_lines[i].text # <<>>
              THEN <<SubtitleLine(timed_lines[i].time_ms, end_time_ms,
                                  timed_lines[i].text,
                                  timed_lines[i].translation)>>
              ELSE <<>>)
             \o lrcRecords(timed_lines, i + 1)

parse_lrc(fileText) == lrcRecords(lrcTimedLines(lrcContentLines(fileText), 1), 1)

-----------------------------------------------------------------------------
(* parse_srt.                                                              *)

\* re.split(r"[:,]", s)
RECURSIVE splitColonComma(_)
splitColonComma(s) ==
    LET n == prefixLen(s, {":", ","})
    IN  IF n = Len(s) THEN <<s>>
        ELSE <<SubSeq(s, 1, n)>> \o splitColonComma(SubSeq(s, n + 2, Len(s)))

\* Variant of srt_time_to_ms that scales the hours as it does the minutes.
srt_time_to_ms_HoursAsMinutes(time_str) ==
    LET parts == splitColonComma(time_str)
    IN  int(parts[1]) * 60000 + int(parts[2]) * 60000
            + int(parts[3]) * 1000 + int(parts[4])

srt_time_to_ms(time_str) ==
    LET parts == splitColonComma(time_str)
    IN  int(parts[1]) * 3600000 + int(parts[2]) * 60000
            + int(parts[3]) * 1000 + int(parts[4])

\* the number of characters \d+ takes at position p of s
RECURSIVE digitsAt(_, _)
digitsAt(s, p) ==
    IF p <= Len(s) /\ s[p] \in Digits THEN 1 + digitsAt(s, p + 1) ELSE 0

\* s has the characters of lit at position p
literalAt(s, p, lit) ==
    /\ p + Len(lit) - 1 <= Len(s)
    /\ SubSeq(s, p, p + Len(lit) - 1) = lit

\* \d{2}:\d{2}:\d{2},\d{3} matches at position p of s
srtTimestampAt(s, p) ==
    /\ p + 11 <= Len(s)
    /\ isDigits(SubSeq(s, p, p + 1))
    /\ s[p + 2] = ":"
    /\ isDigits(SubSeq(s, p + 3, p + 4))
    /\ s[p + 5] = ":"
    /\ isDigits(SubSeq(s, p + 6, p + 7))
    /\ s[p + 8] = ","
    /\ isDigits(SubSeq(s, p + 9, p + 11))

\* (\d+)\n(timestamp) --> (timestamp)\n and one character of the text
\* block match at position p of s
srtHeaderAt(s, p) ==
    LET d == digitsAt(s, p)
        q == p + d + 1
    IN  /\ d >= 1
        /\ literalAt(s, p + d, <<"\n">>)
        /\ srtTimestampAt(s, q)
        /\ literalAt(s, q + 12, <<" ", "-", "-", ">", " ">>)
        /\ srtTimestampAt(s, q + 17)
        /\ literalAt(s, q + 29, <<"\n">>)
        /\ q + 30 <= Len(s)

\* the lookahead (?=\n\n\d+\n|\Z) holds at position e of s
srtLookahead(s, e) ==
    \/ e = Len(s) + 1
    \/ /\ literalAt(s, e, <<"\n", "\n">>)
       /\ digitsAt(s, e + 2) >= 1
       /\ literalAt(s, e + 2 + digitsAt(s, e + 2), <<"\n">>)

\* the position after the lazy ([\s\S]+?) that starts at g: the first
\* position after g at which the lookahead holds
RECURSIVE srtBlockEnd(_, _)
srtBlockEnd(s, e) ==
    IF srtLookahead(s, e) THEN e ELSE srtBlockEnd(s, e + 1)

\* the groups 2, 3 and 4 of the match at position p, and its end
srtGroups(s, p) ==
    LET q == p + digitsAt(s, p) + 1
        e == srtBlockEnd(s, q + 31)
    IN  [start |-> SubSeq(s, q, q + 11),
         end |-> SubSeq(s, q + 17, q + 28),
         block |-> SubSeq(s, q + 30, e - 1),
         next |-> e]

\* Variant of srtRecord that takes the last line of the block as the
\* translation.
srtRecordLastLine(g) ==
    LET text_block == split(strip(g.block), "\n")
    IN  SubtitleLine(srt_time_to_ms(g.start), srt_time_to_ms(g.end),
                     strip(text_block[1]),
                     IF Len(text_block) > 1
                     THEN Some(strip(text_block[Len(text_block)]))
                     ELSE None)

\* the body of the for loop of parse_srt for one match
srtRecord(g) ==
    LET text_block == split(strip(g.block), "\n")
    IN  SubtitleLine(srt_time_to_ms(g.start), srt_time_to_ms(g.end),
                     strip(text_block[1]),
                     IF Len(text_block) > 1
                     THEN Some(strip(text_block[2]))
                     ELSE None)

\* pattern.finditer(content) from position pos: the records of the
\* matches, leftmost first, each search starting where the last match ended
RECURSIVE srtFindIter(_, _)
srtFindIter(fileText, pos) ==
    IF pos > Len(fileText) THEN <<>>
    ELSE IF srtHeaderAt(fileText, pos)
    THEN LET g == srtGroups(fileText, pos)
         IN  <<srtRecord(g)>> \o srtFindIter(fileText, g.next)
    ELSE srtFindIter(fileText, pos + 1)

parse_srt(fileText) == srtFindIter(fileText, 1)

-----------------------------------------------------------------------------
(* parse_subtitles and create_anki_deck.                                   *)

\* str.lower() of the file extensions explored
lower(s) ==
    IF s = ".SRT" THEN ".srt" ELSE IF s = ".LRC" THEN ".lrc" ELSE s

\* parse_subtitles: the parser of the extension; None, which
\* create_anki_deck tests with "not subs" as it does the empty list, is
\* the empty list here
parse_subtitles(subtitle_suffix, text) ==
    LET extension == lower(subtitle_suffix)
    IN  IF extension = ".lrc" THEN parse_lrc(text)
        ELSE IF extension = ".srt" THEN parse_srt(text)
        ELSE <<>>

\* Variant of resolvedEnd that ends every clip at the end of the audio.
resolvedEndAtAudioEnd(end_time_ms, audioLen) == audioLen

\* if end_time_ms == -1: end_time_ms = len(audio)
resolvedEnd(end_time_ms, audioLen) ==
    IF end_time_ms = -1 THEN audioLen ELSE end_time_ms

\* the note and the clip of one iteration of the loop over enumerate(subs):
\* i is the index of enumerate, line the SubtitleLine
noteOf(i, line, audioLen) ==
    [index |-> i + 1,
     start_time_ms |-> line.start_time_ms,
     end_time_ms |-> resolvedEnd(line.end_time_ms, audioLen),
     text |-> line.text,
     translation_text |-> IF line.translation.isNone
                          THEN <<>> ELSE line.translation.str]

-----------------------------------------------------------------------------
(* The subtitle files and audio tracks explored.                           *)

\* f"{n:0{width}d}"
pad(n, width) == repeat("0", width - Len(toString(n))) \o toString(n)

\* the LRC timestamp [MM:SS.f..f] of the given digit strings
lrcStamp(mm, ss, fraction) ==
    <<"[">> \o mm \o <<":">> \o ss \o <<".">> \o fraction \o <<"]">>

\* the SRT timestamp HH:MM:SS,mmm of the given numbers
srtStamp(h, m, s, ms) ==
    pad(h, 2) \o <<":">> \o pad(m, 2) \o <<":">> \o pad(s, 2) \o <<",">>
        \o pad(ms, 3)

\* the sequences of at most n elements of S
SeqsUpTo(S, n) == UNION { [1..k -> S] : k \in 0..n }

\* the lines of the LRC files explored: timed lines with two and three
\* digits of fraction, a timed line without text, a bare line, a line
\* with one digit of fraction, and a blank line
LrcLines ==
    { lrcStamp(pad(0, 2), pad(1, 2), pad(0, 2)) \o <<"a">>,
      lrcStamp(pad(0, 2), pad(2, 2), pad(50, 2)) \o <<"b", " ", "b">>,
      lrcStamp(pad(2, 2), pad(0, 2), pad(0, 2)) \o <<"a">>,
      lrcStamp(pad(0, 2), pad(2, 2), pad(500, 3)) \o <<" ", "b">>,
      lrcStamp(pad(0, 2), pad(1, 2), pad(0, 2)),
      <<"b">>,
      lrcStamp(pad(1, 2), pad(2, 2), pad(5, 1)) \o <<"a">>,
      <<" ">> }

\* the LRC files explored for the structure of the parse
LrcContents ==
    { join(ls, <<"\n">>) : ls \in SeqsUpTo(LrcLines, MaxLrcLines) }

\* the numbers of the timestamps explored for the conversion
StampMinutes == {0, 1, 2, 59, 99}
StampSeconds == {0, 2, 3, 59}
StampHours == {0, 1, 99}
StampFractions == {0, 5, 50, 99, 456, 500, 999}

\* a timed LRC line of the given numbers, the fraction in width digits
lrcTimedLine(m, s, f, width) ==
    lrcStamp(pad(m, 2), pad(s, 2), pad(f, width)) \o <<"a">>

\* the one-line LRC files explored for the conversion of the timestamp
LrcStampContents ==
    { lrcTimedLine(m, s, f, width) :
        m \in StampMinutes, s \in StampSeconds,
        f \in StampFractions, width \in {2, 3} } 

\* len(audio) of the tracks explored, in milliseconds
AudioLengths == {1000, 135000}

\* the text blocks of the SRT records explored: one, two and three lines,
\* a blank second line, blanks around the lines, a blank first line
SrtTextBlocks ==
    { <<"a">>,
      <<"a", "\n", "b">>,
      <<"a", "\n", "b", "\n", "c">>,
      <<"a", "\n", "\n", "b">>,
      <<" ", "a", " ", "\n", " ", "b", "\t">>,
      <<"\n", "a", "\n">> }

\* the SRT record of index k from time_str start to time_str end
srtRecordText(k, start, end, block) ==
    toString(k) \o <<"\n">> \o start \o <<" ", "-", "-", ">", " ">> \o end
        \o <<"\n">> \o block

\* the SRT file of the given text blocks: record k runs from second k to
\* second k + 1, and a blank line separates the records
srtFile(blocks) ==
    join([k \in DOMAIN blocks |->
            srtRecordText(k, srtStamp(0, 0, k, 0), srtStamp(0, 0, k + 1, 0),
                          blocks[k])],
         <<"\n", "\n">>)

\* the SRT files explored for the structure of the parse
SrtContents ==
    { srtFile(blocks) : blocks \in SeqsUpTo(SrtTextBlocks, MaxSrtRecords) }

\* the one-record SRT file whose start time has the given numbers
srtStampFile(h, m, s, ms) ==
    srtRecordText(1, srtStamp(h, m, s, ms), srtStamp(99, 59, 59, 999),
                  <<"a">>)

\* the one-record SRT files explored for the conversion of the timestamp
SrtStampContents ==
    { srtStampFile(h, m, s, ms) :
        h \in StampHours, m \in StampMinutes \ {99}, s \in StampSeconds,
        ms \in StampFractions }

\* the kinds of block of the SRT files explored for the leniency of the
\* parse: a record with one line of text, a record with a translation, a
\* block whose timing line has the arrow "->", a block without its index
\* line, a record without any text line, and a record whose text is blank
SrtBlockKinds ==
    {"record", "translated", "badTiming", "noIndex", "noText", "blank"}

\* the block of the given kind at place k of a file, from second k to
\* second k + 1
srtBlock(kind, k) ==
    LET start == srtStamp(0, 0, k, 0)
        end == srtStamp(0, 0, k + 1, 0)
        timing == start \o <<" ", "-", "-", ">", " ">> \o end
    IN  IF kind = "record" THEN srtRecordText(k, start, end, <<"a">>)
        ELSE IF kind = "translated"
        THEN srtRecordText(k, start, end, <<"a", "\n", "b">>)
        ELSE IF kind = "badTiming"
        THEN toString(k) \o <<"\n">> \o start \o <<" ", "-", ">", " ">>
                 \o end \o <<"\n", "a">>
        ELSE IF kind = "noIndex" THEN timing \o <<"\n", "a">>
        ELSE IF kind = "noText" THEN toString(k) \o <<"\n">> \o timing
        ELSE srtRecordText(k, start, end, <<" ">>)

\* the SRT file of the blocks of the given kinds, a blank line between
\* the blocks
srtBlocksFile(kinds) ==
    join([k \in DOMAIN kinds |-> srtBlock(kinds[k], k)], <<"\n", "\n">>)

\* the SRT files explored for the leniency of the parse
SrtBlockContents ==
    { srtBlocksFile(kinds) : kinds \in SeqsUpTo(SrtBlockKinds, MaxSrtRecords) }

-----------------------------------------------------------------------------
(* The build of one deck.                                                  *)

\* no card is on screen
NoCard ==
    /\ sentence = <<>>
    /\ correctWords = <<>>
    /\ value = <<>>
    /\ placeholderIndices = {}
    /\ hintUsed = {}
    /\ mistakes = emptyObject
    /\ feedbackDisplay = [spans |-> <<>>, fragment |-> <<>>]
    /\ currentHint = -1
    /\ sessionStorage = <<>>
    /\ side = "none"
    /\ backView = noBackView
    /\ lastPass = noPass
    /\ recorded = {}
    /\ passes = 0
    /\ hintContent = <<>>
    /\ initThrew = FALSE
    /\ audioPlayer = audioElement

\* the names of CONFIGS, in the order of the dictionary
ConfigNames == <<"npr", "mw">>

\* what can fail for a configuration: nothing, the audio file or the
\* subtitle file is missing, open or read of the subtitle file raises,
\* AudioSegment.from_file raises, clip.export raises, and
\* package.write_to_file raises
Faults ==
    {"none", "audioMissing", "subtitleMissing", "unreadable", "decode",
     "encode", "package"}

\* what the build of a configuration has written: the media directory, the
\* number of clips in it, and the package
noOutput == [mediaDir |-> FALSE, clips |-> 0, package |-> FALSE]

\* create_anki_deck is called for the first of the given configurations,
\* whose subtitle file has the given extension and text and whose audio
\* track has the given length, and fails as given
StartBuild(names, extension, text, audioLen, failure) ==
    /\ suffix = extension
    /\ content = text
    /\ audioLength = audioLen
    /\ subs = <<>>
    /\ pc = "check"
    /\ lineIndex = 0
    /\ notes = <<>>
    /\ queue = names
    /\ fault = failure
    /\ disk = [name \in {names[1]} |-> noOutput]
    /\ NoCard

\* the script is run for "npr", whose files are there and sound
InitLrc ==
    \E text \in LrcContents \cup LrcStampContents, audioLen \in AudioLengths :
        StartBuild(<<"npr">>, ".lrc", text, audioLen, "none")

\* the script is run for "mw", whose files are there and sound
InitSrt ==
    \E text \in SrtContents \cup SrtStampContents \cup SrtBlockContents,
       audioLen \in AudioLengths :
        StartBuild(<<"mw">>, ".srt", text, audioLen, "none")

\* the configuration being built
current == queue[1]

\* create_anki_deck, "1. Validate input files"
CheckFiles ==
    /\ pc = "check"
    /\ pc' = IF fault \in {"audioMissing", "subtitleMissing"}
             THEN "aborted" ELSE "parse"
    /\ UNCHANGED <<suffix, content, audioLength, subs, lineIndex, notes,
                   queue, fault, disk>>
    /\ UNCHANGED cardVars

\* create_anki_deck: the subtitle file is parsed, and the build stops when
\* there is no line; parse_subtitles returns None when open or read raises
ParseSubtitles ==
    /\ pc = "parse"
    /\ subs' = IF fault = "unreadable" THEN <<>>
               ELSE parse_subtitles(suffix, content)
    /\ pc' = IF subs' = <<>> THEN "aborted" ELSE "load"
    /\ UNCHANGED <<suffix, content, audioLength, lineIndex, notes, queue,
                   fault, disk>>
    /\ UNCHANGED cardVars

\* Variant of LoadAudio that goes on when AudioSegment.from_file raises.
LoadAudioUnguarded ==
    /\ pc = "load"
    /\ pc' = "mkdir"
    /\ UNCHANGED <<suffix, content, audioLength, subs, lineIndex, notes,
                   queue, fault, disk>>
    /\ UNCHANGED cardVars

\* create_anki_deck, "2. Loading audio file": the build stops when
\* AudioSegment.from_file raises
LoadAudio ==
    /\ pc = "load"
    /\ pc' = IF fault = "decode" THEN "aborted" ELSE "mkdir"
    /\ UNCHANGED <<suffix, content, audioLength, subs, lineIndex, notes,
                   queue, fault, disk>>
    /\ UNCHANGED cardVars

\* media_dir.mkdir(exist_ok=True)
MakeMediaDir ==
    /\ pc = "mkdir"
    /\ disk' = [disk EXCEPT ![current].mediaDir = TRUE]
    /\ pc' = "slice"
    /\ UNCHANGED <<suffix, content, audioLength, subs, lineIndex, notes,
                   queue, fault>>
    /\ UNCHANGED cardVars

\* one iteration of the loop over enumerate(subs): a line without text is
\* skipped, any other line gives a clip and a note; an exception of
\* clip.export, at whichever clip it is raised, leaves create_anki_deck
\* and the script
SliceLine ==
    /\ pc = "slice"
    /\ lineIndex < Len(subs)
    /\ \E raises \in (IF fault = "encode" THEN BOOLEAN ELSE {FALSE}) :
        IF strip(subs[lineIndex + 1].text) = <<>>
        THEN /\ lineIndex' = lineIndex + 1
             /\ UNCHANGED <<notes, pc, disk>>
        ELSE IF raises
        THEN /\ pc' = "crashed"
             /\ UNCHANGED <<notes, lineIndex, disk>>
        ELSE /\ notes' = Append(notes,
                                noteOf(lineIndex, subs[lineIndex + 1],
                                       audioLength))
             /\ disk' = [disk EXCEPT ![current].clips = @ + 1]
             /\ lineIndex' = lineIndex + 1
             /\ UNCHANGED pc
    /\ UNCHANGED <<suffix, content, audioLength, subs, queue, fault>>
    /\ UNCHANGED cardVars

\* after the loop: the deck and its media are written; an exception of
\* package.write_to_file leaves create_anki_deck and the script
WritePackage ==
    /\ pc = "slice"
    /\ lineIndex = Len(subs)
    /\ IF fault = "package"
       THEN pc' = "crashed" /\ UNCHANGED disk
       ELSE /\ pc' = "done"
            /\ disk' = [disk EXCEPT ![current].package = TRUE]
    /\ UNCHANGED <<suffix, content, audioLength, subs, lineIndex, notes,
                   queue, fault>>
    /\ UNCHANGED cardVars

NextBuild ==
    \/ CheckFiles
    \/ ParseSubtitles
    \/ LoadAudio
    \/ MakeMediaDir
    \/ SliceLine
    \/ WritePackage

SpecLrc == InitLrc /\ [][NextBuild]_vars

SpecSrt == InitSrt /\ [][NextBuild]_vars

\* the extensions of the subtitle files explored in a run for all
\* configurations: those of CONFIGS, one in capitals and one unsupported
Suffixes == {".lrc", ".srt", ".SRT", ".txt"}

\* the subtitle files explored in a run for all configurations: an empty
\* file, an LRC file of two lines and an SRT file of two records
BatchContents ==
    { <<>>,
      join(<<lrcTimedLine(0, 1, 0, 2), lrcTimedLine(0, 2, 50, 2)>>, <<"\n">>),
      srtBlocksFile(<<"record", "translated">>) }

\* the length of the audio tracks of a run for all configurations
BatchAudioLength == 135000

\* the script is run for "all": create_anki_deck is called for the first
\* configuration
InitBatch ==
    \E extension \in Suffixes, text \in BatchContents, failure \in Faults :
        StartBuild(ConfigNames, extension, text, BatchAudioLength, failure)

\* "for config_key in CONFIGS": create_anki_deck has returned and is
\* called for the next configuration
NextConfig ==
    /\ pc \in {"done", "aborted"}
    /\ Len(queue) > 1
    /\ queue' = Tail(queue)
    /\ \E extension \in Suffixes, text \in BatchContents, failure \in Faults :
        /\ suffix' = extension
        /\ content' = text
        /\ fault' = failure
    /\ subs' = <<>>
    /\ pc' = "check"
    /\ lineIndex' = 0
    /\ notes' = <<>>
    /\ disk' = [name \in DOMAIN disk \cup {queue[2]} |->
                   IF name \in DOMAIN disk THEN disk[name] ELSE noOutput]
    /\ UNCHANGED audioLength
    /\ UNCHANGED cardVars

NextBatch ==
    \/ CheckFiles
    \/ ParseSubtitles
    \/ LoadAudio
    \/ MakeMediaDir
    \/ SliceLine
    \/ WritePackage
    \/ NextConfig

SpecBatch == InitBatch /\ [][NextBatch]_vars

-----------------------------------------------------------------------------
(* Properties.                                                             *)

\* a step in which checkTyping ran
PassStep == passes' = passes + 1

\* the pairs <<reference word, token>> of a mistakes object
ledgerPairs(o) ==
    UNION { { <<o.keys[i], o.vals[i][j]>> : j \in 1..Len(o.vals[i]) } :
            i \in 1..Len(o.keys) }

\* C1: the ledger of a front instance is append-only: every pair of a
\* reference word and a token that is in the ledger stays in it over every
\* later grading pass, also when the position is then typed correctly.
C1_LedgerAppendOnly ==
    [][ledgerPairs(mistakes) \subseteq ledgerPairs(mistakes')]_vars

\* C1 witness: without any hint, a pass has just graded the first word
\* correct while the ledger holds a wrong attempt that was typed at that
\* position.
C1_Witness ==
    /\ lastPass.ran /\ ~lastPass.threw
    /\ placeholderIndices = {}
    /\ Len(lastPass.spans) >= 1
    /\ "correct" \in lastPass.spans[1].classes
    /\ \E e \in recorded :
          /\ e[1] = 0
          /\ <<correctWords[1], e[2]>> \in ledgerPairs(mistakes)

\* whether an array holds no element twice
noDuplicates(arr) ==
    \A i, j \in 1..Len(arr) : arr[i] = arr[j] => i = j

\* C2: a grading pass over the input of the pass before it (the text as it
\* was handed to that pass, or as that pass left it) leaves the ledger as
\* it is, and no ledger entry ever holds a token twice.
C2_RegradeIdempotent ==
    /\ [](\A i \in 1..Len(mistakes.keys) : noDuplicates(mistakes.vals[i]))
    /\ [][(/\ PassStep
           /\ lastPass.ran
           /\ \/ lastPass'.rawInput = lastPass.rawInput
              \/ lastPass'.rawInput = value)
          => mistakes' = mistakes]_vars

\* C2 witness: the last pass ran on the text the pass before it left (a
\* pass that a hint had changed the text of), with a mistake in the ledger
\* and a wrong word among the words graded.
C2_Witness ==
    /\ passes >= 2
    /\ lastPass.rawInput = lastPass.textBefore
    /\ lastPass.rawInput # lastPass.inputBefore
    /\ ~lastPass.threw
    /\ recorded # {}
    /\ \E j \in 1..Len(lastPass.spans) :
          "incorrect" \in lastPass.spans[j].classes

\* w lower-cased, without its last character when that is one of . , ! ? "
C3_Normal(w) ==
    LET low == [i \in 1..Len(w) |->
                   IF w[i] = "A" THEN "a" ELSE IF w[i] = "B" THEN "b" ELSE w[i]]
    IN  IF Len(low) > 0 /\ low[Len(low)] \in {".", ",", "!", "?", "\""}
        THEN SubSeq(low, 1, Len(low) - 1)
        ELSE low

\* whether the pass just made rendered the word at index i (0-based) with
\* class c
C3_Graded(i, c) ==
    /\ i + 1 <= Len(lastPass'.spans)
    /\ c \in lastPass'.spans[i + 1].classes

\* whether array a is a prefix of array b
isPrefix(a, b) == Len(a) <= Len(b) /\ SubSeq(b, 1, Len(a)) = a

\* C3: in a grading pass a committed token at an index inside the reference
\* is graded correct iff it equals the reference word case-insensitively
\* after the removal of one trailing . , ! ? " on each side; graded
\* incorrect at an index not revealed by hint, the raw token is in the
\* ledger entry of the reference word after the pass; entries only grow at
\* their end; and a token graded correct is not added: every pair added is
\* the hint marker or the raw token of an index graded incorrect.
C3_GradingRule ==
    [][PassStep =>
        LET words == lastPass'.completedWords
            inside(i) == i < Len(correctWords) /\ words[i + 1] # <<>>
            same(i) == C3_Normal(words[i + 1]) = C3_Normal(correctWords[i + 1])
        IN  /\ \A i \in 0..(Len(words) - 1) :
                 inside(i) =>
                   /\ same(i) => C3_Graded(i, "correct")
                   /\ ~same(i) => C3_Graded(i, "incorrect")
                   /\ (~same(i) /\ i \notin placeholderIndices') =>
                         <<correctWords[i + 1], words[i + 1]>>
                             \in ledgerPairs(mistakes')
            /\ \A k \in 1..Len(mistakes.keys) :
                 /\ hasOwn(mistakes', mistakes.keys[k])
                 /\ isPrefix(mistakes.vals[k],
                             getOwn(mistakes', mistakes.keys[k]))
            /\ \A pair \in ledgerPairs(mistakes') \ ledgerPairs(mistakes) :
                 \/ pair[2] = <<"#">>
                 \/ \E i \in 0..(Len(words) - 1) :
                       /\ inside(i) /\ ~same(i)
                       /\ pair = <<correctWords[i + 1], words[i + 1]>>]_vars

\* C4: once an index is revealed by hint, no later grading pass adds a typed
\* token to the ledger on its account: every pair a pass adds is the hint
\* marker or a token committed, in that pass, at an index of that reference
\* word that is not revealed; and the revealed set never shrinks.
C4_HintExclusion ==
    [][/\ placeholderIndices \subseteq placeholderIndices'
       /\ \A pair \in ledgerPairs(mistakes') \ ledgerPairs(mistakes) :
             \/ /\ pair[2] = <<"#">>
                /\ \E i \in hintUsed' : correctWords[i + 1] = pair[1]
             \/ \E i \in 0..(Len(lastPass'.completedWords) - 1) :
                   /\ i < Len(correctWords)
                   /\ i \notin placeholderIndices'
                   /\ correctWords[i + 1] = pair[1]
                   /\ lastPass'.completedWords[i + 1] = pair[2]]_vars

\* C4 witness: a pass has graded a revealed index incorrect (the learner
\* changed the word the hint filled in) and the token is not in the ledger.
C4_Witness ==
    /\ lastPass.ran /\ ~lastPass.threw
    /\ \E i \in placeholderIndices :
          /\ i + 1 <= Len(lastPass.spans)
          /\ "incorrect" \in lastPass.spans[i + 1].classes
          /\ <<correctWords[i + 1], lastPass.completedWords[i + 1]>>
                \notin ledgerPairs(mistakes)

\* C5: after the grading pass that follows a reveal, the ledger entry of a
\* revealed index at which no typed mistake was ever recorded holds the
\* hint marker.
C5_HintMarker ==
    lastPass.ran =>
        \A i \in placeholderIndices :
            (\A e \in recorded : e[1] # i) =>
                <<correctWords[i + 1], <<"#">>>> \in ledgerPairs(mistakes)

\* the tokens of a text: its maximal runs of characters other than space,
\* newline and tab
RECURSIVE C6_Tokens(_)
C6_Tokens(text) ==
    IF text = <<>> THEN <<>>
    ELSE IF text[1] \in {" ", "\n", "\t"} THEN C6_Tokens(Tail(text))
    ELSE LET rest == C6_Tokens(Tail(text))
         IN  IF Len(text) > 1 /\ text[2] \notin {" ", "\n", "\t"}
             THEN <<(<<text[1]>> \o rest[1])>> \o Tail(rest)
             ELSE << <<text[1]>> >> \o rest

\* whether a text ends in a whitespace character
C6_EndsInWhitespace(text) ==
    text # <<>> /\ text[Len(text)] \in {" ", "\n", "\t"}

\* the number of tokens of a text that are followed by whitespace
C6_CommittedCount(text) ==
    IF text = <<>> \/ C6_EndsInWhitespace(text) THEN Len(C6_Tokens(text))
    ELSE Len(C6_Tokens(text)) - 1

\* the text before the "#" that ends the input of the pass just made
C6_BeforeHint == SubSeq(lastPass'.rawInput, 1, Len(lastPass'.rawInput) - 1)

\* what a hint trigger leaves when the word at index n is revealed: the
\* text before the "#", the word (after a space unless the text is empty
\* or ends with one) and a space; n is marked revealed
C6_Reveals(n) ==
    /\ \/ value' = C6_BeforeHint \o correctWords[n + 1] \o <<" ">>
       \/ value' = C6_BeforeHint \o <<" ">> \o correctWords[n + 1] \o <<" ">>
    /\ (value' = C6_BeforeHint \o correctWords[n + 1] \o <<" ">>)
         <=> (C6_BeforeHint = <<>> \/ C6_BeforeHint[Len(C6_BeforeHint)] = " ")
    /\ n \in placeholderIndices'

\* a step in which checkTyping ran on an input ending with "#"
C6_HintStep ==
    /\ PassStep
    /\ lastPass'.rawInput # <<>>
    /\ lastPass'.rawInput[Len(lastPass'.rawInput)] = "#"

\* C6 as claimed: the word revealed is the one whose index is the number of
\* whitespace-terminated tokens before the "#", a token still in progress
\* not counted.
C6_HintTriggerCommittedCount ==
    [][(C6_HintStep /\ C6_CommittedCount(C6_BeforeHint) < Len(correctWords))
          => C6_Reveals(C6_CommittedCount(C6_BeforeHint))]_vars

\* C6 as amended: the word revealed is the one whose index is the number of
\* tokens before the "#", a token still in progress counted (the hint
\* commits it); the "#" is removed, the word is appended verbatim, after a
\* space unless the text is empty or ends with one, and followed by a
\* space, and the index is marked revealed.
C6_HintTrigger ==
    [][(C6_HintStep /\ Len(C6_Tokens(C6_BeforeHint)) < Len(correctWords))
          => C6_Reveals(Len(C6_Tokens(C6_BeforeHint)))]_vars

\* C6 witness: a hint was triggered while a word was in progress, and the
\* word after it was revealed.
C6_Witness ==
    /\ lastPass.ran
    /\ Len(lastPass.rawInput) >= 2
    /\ lastPass.rawInput[Len(lastPass.rawInput)] = "#"
    /\ lastPass.rawInput[Len(lastPass.rawInput) - 1] \notin {" ", "\n", "\t"}
    /\ lastPass.revealed = 1
    /\ 1 \in placeholderIndices

\* a sequence without its empty elements
C7_NonEmpty(seq) ==
    LET full(w) == w # <<>> IN SelectSeq(seq, full)

\* C7 as claimed, for the passes that run to their end: the text graded is
\* split on runs of whitespace; its last token is in progress unless the
\* text ends in a whitespace character; the token in progress is not among
\* the tokens graded, all the others are.
C7_Tokenization ==
    (lastPass.ran /\ ~lastPass.threw) =>
        LET tokens == C6_Tokens(value)
            committed == C7_NonEmpty(lastPass.completedWords)
        IN  /\ (value = <<>> \/ C6_EndsInWhitespace(value)) =>
                  /\ committed = tokens
                  /\ lastPass.fragment = <<>>
            /\ (value # <<>> /\ ~C6_EndsInWhitespace(value)) =>
                  /\ committed = SubSeq(tokens, 1, Len(tokens) - 1)
                  /\ lastPass.fragment = tokens[Len(tokens)]
            /\ Len(lastPass.spans) = Len(committed)
            /\ \A j \in 1..Len(lastPass.spans) :
                  lastPass.spans[j].text = committed[j] \o <<" ">>

\* C8 as claimed: after every grading pass the store holds, under the key
\* of the card, the serialization of the ledger the front has in memory.
C8_StoreHoldsLedger ==
    lastPass.ran =>
        /\ hasItem(sessionStorage, mistakesKey)
        /\ getItem(sessionStorage, mistakesKey) = JSONstringify(mistakes)

\* C9 as claimed, for the passes that run to their end: the count stored
\* under the key of the card, which is also the index of the hint word
\* marked current, is the number of committed tokens of the text: 0 for an
\* empty or whitespace-only text.
C9_StoredCount ==
    (lastPass.ran /\ ~lastPass.threw) =>
        /\ hasItem(sessionStorage, typedWordCountKey)
        /\ getItem(sessionStorage, typedWordCountKey)
              = toString(C6_CommittedCount(value))
        /\ currentHint = C6_CommittedCount(value)

\* C10 as claimed, for the renders that run to their end: on the back a
\* word of the sentence is flagged iff its form under the rule of grading
\* is the form of a key of the stored ledger under that rule.
C10_HighlightByGradingRule ==
    (backView.rendered /\ ~backView.error) =>
        LET words == C6_Tokens(sentence)
            keys == IF hasItem(sessionStorage, mistakesKey)
                    THEN { getItem(sessionStorage, mistakesKey)[k][1] :
                             k \in 1..Len(getItem(sessionStorage, mistakesKey)) }
                    ELSE {}
        IN  \A idx \in 0..(Len(words) - 1) :
                (idx \in backView.mistakeIndices)
                  <=> \E key \in keys :
                         C3_Normal(key) = C3_Normal(words[idx + 1])

\* C11: with an empty reference sentence the front instance does not
\* raise, neither in its initialization (the initial hint display
\* included) nor in a grading pass, and its ledger stays empty.
C11_EmptySentenceDegrades ==
    sentence = <<>> =>
        /\ ~initThrew
        /\ ~lastPass.threw
        /\ mistakes = emptyObject

\* a step of a speed button or of the loop button: the only handlers that
\* neither grade nor show the answer
C12_AudioStep == passes' = passes /\ side' = side

\* what a grading pass reads and writes
C12_GradingState ==
    <<correctWords, value, placeholderIndices, hintUsed, mistakes,
      feedbackDisplay, currentHint, sessionStorage>>

\* the frame half of C12: setPlaySpeed and toggleLoop change nothing that
\* a grading pass reads or writes
C12_AudioFrame == [][C12_AudioStep => UNCHANGED C12_GradingState]_vars

C13_SegmentsNonEmpty ==
    \A k \in DOMAIN notes :
        notes[k].start_time_ms < notes[k].end_time_ms

\* the build has parsed the subtitle file
Parsed == pc \notin {"check", "parse"}

\* the one-line LRC file of each timestamp explored
C14_LineOf ==
    [m \in StampMinutes, s \in StampSeconds, f \in StampFractions,
     width \in {2, 3} |-> lrcTimedLine(m, s, f, width)]

\* C14: a timed LRC line [MM:SS.ff] starts at MM*60000 + SS*1000 + ff*10
\* ms and a timed line [MM:SS.fff] at MM*60000 + SS*1000 + fff ms, so that
\* [01:02.50] and [01:02.500] both start at 62500 ms.
C14_LrcTimestampValue ==
    /\ \A m \in StampMinutes, s \in StampSeconds, f \in StampFractions,
          width \in {2, 3} :
        (Parsed /\ suffix = ".lrc" /\ content = C14_LineOf[m, s, f, width])
            => /\ Len(subs) = 1
               /\ subs[1].start_time_ms =
                      m * 60000 + s * 1000
                          + (IF Len(pad(f, width)) = 2 THEN f * 10 ELSE f)
    /\ (Parsed /\ suffix = ".lrc"
            /\ content \in {lrcTimedLine(1, 2, 50, 2),
                            lrcTimedLine(1, 2, 500, 3)})
            => subs[1].start_time_ms = 62500

\* C14 witness: [01:02.500]a has been parsed to a line starting at 62500.
C14_Witness ==
    /\ Parsed
    /\ content = <<"[", "0", "1", ":", "0", "2", ".", "5", "0", "0", "]", "a">>
    /\ Len(subs) = 1
    /\ subs[1].start_time_ms = 62500

\* the line [01:02.5]a, and the line [01:02.50]a it is to be read as
C15_OneDigitLine == lrcStamp(pad(1, 2), pad(2, 2), pad(5, 1)) \o <<"a">>

C15_TwoDigitLine == lrcStamp(pad(1, 2), pad(2, 2), pad(50, 2)) \o <<"a">>

\* the lines ls of a file with every [01:02.5]a written [01:02.50]a
C15_AsTwoDigits(ls) ==
    [k \in DOMAIN ls |->
        IF ls[k] = C15_OneDigitLine THEN C15_TwoDigitLine ELSE ls[k]]

\* C15: an LRC line whose timestamp has one digit of fraction, [01:02.5]a,
\* is parsed as [01:02.50]a is: the file gives the records it gives with
\* the line written with two digits, and the line alone gives one record
\* starting at 62500 ms.
C15_OneDigitFraction ==
    /\ (Parsed /\ suffix = ".lrc")
            => subs = parse_lrc(join(C15_AsTwoDigits(split(content, "\n")),
                                     <<"\n">>))
    /\ (Parsed /\ suffix = ".lrc" /\ content = C15_OneDigitLine)
            => /\ Len(subs) = 1
               /\ subs[1].start_time_ms = 62500

\* the one-record SRT file of each start time explored
C16_FileOf ==
    [h \in StampHours, m \in StampMinutes \ {99}, s \in StampSeconds,
     ms \in StampFractions |-> srtStampFile(h, m, s, ms)]

\* C16: the SRT timestamp HH:MM:SS,mmm converts to
\* HH*3600000 + MM*60000 + SS*1000 + mmm ms for every well-formed
\* timestamp; 01:02:03,456 converts to 3723456.
C16_SrtTimestampValue ==
    /\ \A h \in StampHours, m \in StampMinutes \ {99}, s \in StampSeconds,
          ms \in StampFractions :
        (Parsed /\ suffix = ".srt" /\ content = C16_FileOf[h, m, s, ms])
            => /\ Len(subs) = 1
               /\ subs[1].start_time_ms =
                      h * 3600000 + m * 60000 + s * 1000 + ms
               /\ subs[1].end_time_ms =
                      99 * 3600000 + 59 * 60000 + 59 * 1000 + 999
    /\ (Parsed /\ suffix = ".srt" /\ content = srtStampFile(1, 2, 3, 456))
            => subs[1].start_time_ms = 3723456

\* C16 witness: the record starting at 01:02:03,456 has been parsed to a
\* line starting at 3723456.
C16_Witness ==
    /\ Parsed
    /\ suffix = ".srt"
    /\ content = srtStampFile(1, 2, 3, 456)
    /\ Len(subs) = 1
    /\ subs[1].start_time_ms = 3723456

\* a line of the files explored is timed: it starts with [MM:SS.ff] or
\* [MM:SS.fff]
C17_IsTimed(line) ==
    /\ line # <<>>
    /\ line[1] = "["
    /\ prefixLen(line, {"]"}) \in {9, 10}

\* the text after the timestamp of a timed line
C17_TextOf(line) == trim(SubSeq(line, prefixLen(line, {"]"}) + 2, Len(line)))

\* the start time of a timed line
C17_StartOf(line) == lrcTimeMs(lrcGroups(line))

\* the timed lines of a file, in file order
C17_TimedLines(ls) == SelectSeq(ls, C17_IsTimed)

\* the timed lines that have a text, each with its start and the start of
\* the timed line after it, or -1 for the last timed line, in file order
RECURSIVE C17_Expected(_, _)
C17_Expected(timed, k) ==
    IF k > Len(timed) THEN <<>>
    ELSE (IF C17_TextOf(timed[k]) # <<>>
          THEN << <<C17_StartOf(timed[k]),
                    IF k < Len(timed) THEN C17_StartOf(timed[k + 1]) ELSE -1>> >>
          ELSE <<>>)
         \o C17_Expected(timed, k + 1)

\* C17: the records parse_lrc emits are those of the timed lines with a
\* text, in file order; the end of each is the start time of the timed
\* line that follows it in the file, and the record of the last timed
\* line has the end -1.
C17_LrcEndTimes ==
    (Parsed /\ suffix = ".lrc")
        => [k \in DOMAIN subs |->
               <<subs[k].start_time_ms, subs[k].end_time_ms>>]
           = C17_Expected(C17_TimedLines(split(content, "\n")), 1)

\* C17 witness: three timed lines, the second without text, have been
\* parsed: the first record ends where the second line starts and the
\* record of the last line is left open.
C17_Witness ==
    /\ Parsed
    /\ suffix = ".lrc"
    /\ Len(lrcContentLines(content)) = 3
    /\ Len(subs) = 2
    /\ subs[1].end_time_ms < subs[2].start_time_ms
    /\ subs[1].end_time_ms # -1
    /\ subs[2].end_time_ms = -1

\* the LRC file of the scenario of C18: three timed lines, the last at
\* [02:00.00]
C18_ThreeLines ==
    join(<<lrcStamp(pad(0, 2), pad(1, 2), pad(0, 2)) \o <<"a">>,
           lrcStamp(pad(0, 2), pad(2, 2), pad(50, 2)) \o <<"b", " ", "b">>,
           lrcStamp(pad(2, 2), pad(0, 2), pad(0, 2)) \o <<"a">>>>,
         <<"\n">>)

\* C18: the segment of a note starts where its record starts; it ends at
\* the total audio duration when the end of the record is the -1
\* sentinel, and at the end of the record otherwise.  For the LRC file with
\* three timed lines, the last at [02:00.00], and an audio track of
\* 135000 ms, the third segment is [120000, 135000).
C18_SentinelResolution ==
    /\ \A n \in DOMAIN notes :
        /\ notes[n].index \in DOMAIN subs
        /\ notes[n].start_time_ms = subs[notes[n].index].start_time_ms
        /\ notes[n].end_time_ms =
               IF subs[notes[n].index].end_time_ms = -1
               THEN audioLength
               ELSE subs[notes[n].index].end_time_ms
    /\ (suffix = ".lrc" /\ content = C18_ThreeLines /\ audioLength = 135000
            /\ pc = "done")
            => /\ Len(notes) = 3
               /\ notes[3].start_time_ms = 120000
               /\ notes[3].end_time_ms = 135000

\* C18 witness: the three lines of the scenario have become notes, the
\* second kept the end of its record and the third, whose record has the
\* sentinel, ends at 135000.
C18_Witness ==
    /\ suffix = ".lrc"
    /\ content = C18_ThreeLines
    /\ audioLength = 135000
    /\ Len(notes) = 3
    /\ subs[2].end_time_ms = 120000
    /\ notes[2].end_time_ms = 120000
    /\ subs[3].end_time_ms = -1
    /\ notes[3].start_time_ms = 120000
    /\ notes[3].end_time_ms = 135000

\* the non-blank lines of a file, trimmed, in file order
C19_NonBlank(ls) ==
    LET trimmed == [k \in DOMAIN ls |-> trim(ls[k])]
        nonEmpty(line) == line # <<>>
    IN  SelectSeq(trimmed, nonEmpty)

\* the text and the translation of every timed line with a text: the
\* translation is the next non-blank line when that line is not timed
RECURSIVE C19_Expected(_, _)
C19_Expected(nb, j) ==
    IF j > Len(nb) THEN <<>>
    ELSE (IF C17_IsTimed(nb[j]) /\ C17_TextOf(nb[j]) # <<>>
          THEN << <<C17_TextOf(nb[j]),
                    IF j < Len(nb) /\ ~C17_IsTimed(nb[j + 1])
                    THEN Some(nb[j + 1]) ELSE None>> >>
          ELSE <<>>)
         \o C19_Expected(nb, j + 1)

\* C19: a line without timestamp that follows a timed line is the
\* translation of that line and gives no record of its own; a timed line
\* followed by a timed line or by the end of the file has no translation.
\* A timed line is a line that starts with [MM:SS.ff] or [MM:SS.fff].
C19_LrcTranslations ==
    (Parsed /\ suffix = ".lrc")
        => [k \in DOMAIN subs |-> <<subs[k].text, subs[k].translation>>]
           = C19_Expected(C19_NonBlank(split(content, "\n")), 1)

\* C19 witness: a timed line, a bare line and a timed line have been
\* parsed to two records, the first with the bare line as its translation
\* and the second without translation.
C19_Witness ==
    /\ Parsed
    /\ suffix = ".lrc"
    /\ Len(lrcContentLines(content)) = 3
    /\ lrcContentLines(content)[2] = <<"b">>
    /\ Len(subs) = 2
    /\ subs[1].translation = Some(<<"b">>)
    /\ subs[2].translation = None

\* the lines of a text block
C20_Lines(block) == split(block, "\n")

\* the indices of the non-blank lines of a text block
C20_NonBlank(block) ==
    { k \in DOMAIN C20_Lines(block) : trim(C20_Lines(block)[k]) # <<>> }

\* the index of the first non-blank line of a text block
C20_First(block) ==
    CHOOSE k \in C20_NonBlank(block) : \A l \in C20_NonBlank(block) : k <= l

\* the text block has a line after its first non-blank line, not counting
\* the blank lines that end the block
C20_HasSecond(block) ==
    \E l \in C20_NonBlank(block) : l > C20_First(block)

\* the SRT file of each sequence of text blocks explored
C20_FileOf ==
    [blocks \in SeqsUpTo(SrtTextBlocks, MaxSrtRecords) |-> srtFile(blocks)]

\* C20: the text of an SRT record is the first non-blank line of its text
\* block; its translation is the line after that one when the block has
\* one, and absent otherwise; the lines after the second are ignored.
C20_SrtTextBlock ==
    (Parsed /\ suffix = ".srt" /\ content \in SrtContents) =>
        \A blocks \in SeqsUpTo(SrtTextBlocks, MaxSrtRecords) :
            content = C20_FileOf[blocks]
                => /\ Len(subs) = Len(blocks)
                   /\ \A k \in DOMAIN blocks :
                        /\ subs[k].text =
                               trim(C20_Lines(blocks[k])[C20_First(blocks[k])])
                        /\ subs[k].translation =
                               IF C20_HasSecond(blocks[k])
                               THEN Some(trim(C20_Lines(blocks[k])
                                                  [C20_First(blocks[k]) + 1]))
                               ELSE None

\* C20 witness: a record of three text lines and a record of one text line
\* have been parsed: the first has its second line as translation, the
\* second has none.
C20_Witness ==
    /\ Parsed
    /\ suffix = ".srt"
    /\ content = srtFile(<< <<"a", "\n", "b", "\n", "c">>, <<"a">> >>)
    /\ Len(subs) = 2
    /\ subs[1].text = <<"a">>
    /\ subs[1].translation = Some(<<"b">>)
    /\ subs[2].translation = None

\* the kinds of block that match the grammar of a record: an index line, a
\* timing line and at least one line of text that is not blank
C21_WellFormed == {"record", "translated"}

\* the kinds of the blocks of each file of SrtBlockContents
C21_KindsOf ==
    [f \in SrtBlockContents |->
        CHOOSE kinds \in SeqsUpTo(SrtBlockKinds, MaxSrtRecords) :
            srtBlocksFile(kinds) = f]

\* the timing and text of the well-formed blocks among the blocks of the
\* given kinds, from place k on, in the order of the file
RECURSIVE C21_Expected(_, _)
C21_Expected(kinds, k) ==
    IF k > Len(kinds) THEN <<>>
    ELSE (IF kinds[k] \in C21_WellFormed
          THEN << [start_time_ms |-> k * 1000,
                   end_time_ms |-> (k + 1) * 1000,
                   text |-> <<"a">>] >>
          ELSE <<>>) \o C21_Expected(kinds, k + 1)

\* the timing and text of the lines parsed
C21_TimingAndText ==
    [j \in DOMAIN subs |-> [start_time_ms |-> subs[j].start_time_ms,
                            end_time_ms |-> subs[j].end_time_ms,
                            text |-> subs[j].text]]

\* C21: parse_srt returns, for a file of well-formed records and blocks
\* that do not match the grammar of index, timing and text, one line for
\* each well-formed record, in the order of the file, with the timing and
\* the text of that record, and nothing for the other blocks; the result
\* is empty when no block is well-formed.
C21_SrtLeniency ==
    (Parsed /\ suffix = ".srt" /\ content \in SrtBlockContents) =>
        C21_TimingAndText = C21_Expected(C21_KindsOf[content], 1)

\* C22: every line that parse_srt or parse_lrc returns has a text that is
\* not empty after trimming.
C22_NoEmptyRecords ==
    Parsed => \A j \in DOMAIN subs : strip(subs[j].text) # <<>>

\* the lines parsed whose text is not blank, in the order of the file
C23_Kept ==
    LET nonBlank(line) == strip(line.text) # <<>>
    IN  SelectSeq(subs, nonBlank)

\* C23: the notes and clips of a finished build are in the order of the
\* subtitle lines, one for each line whose text is not blank, and the k-th
\* of them has the index k in its clip filename: the indices run from 1
\* to the number of notes without gaps.
C23_SegmentOrderAndIndex ==
    pc = "done" =>
        /\ Len(notes) = Len(C23_Kept)
        /\ \A k \in DOMAIN notes :
              /\ notes[k].text = C23_Kept[k].text
              /\ notes[k].start_time_ms = C23_Kept[k].start_time_ms
              /\ notes[k].index = k

\* the script has ended: the loop over CONFIGS is through, or an exception
\* has left it
Ended ==
    \/ pc = "crashed"
    \/ pc \in {"done", "aborted"} /\ Len(queue) = 1

\* C24: in a run for all configurations the build of every configuration
\* is started before the script ends, whatever failure stopped the build
\* of an earlier configuration.
C24_BatchIsolation ==
    Ended => DOMAIN disk = {ConfigNames[k] : k \in DOMAIN ConfigNames}

\* the non-blank lines of the LRC file being built, trimmed
C25_Lines == C19_NonBlank(split(content, "\n"))

\* the file has a line that is neither timed nor a translation: a
\* non-blank line that is not timed and does not follow a timed line
C25_HasUnclassified ==
    \E k \in DOMAIN C25_Lines :
        /\ ~C17_IsTimed(C25_Lines[k])
        /\ k > 1 => ~C17_IsTimed(C25_Lines[k - 1])

\* C25: an LRC file with a non-blank line that is neither a timed line nor
\* the translation of one is not parsed: the build stops with an error
\* and no line is returned.
C25_UnclassifiedLineAborts ==
    (Parsed /\ suffix = ".lrc" /\ C25_HasUnclassified) =>
        (pc = "aborted" /\ subs = <<>>)

\* the extensions that parse_subtitles is to take, whatever their case
C26_Supported == {".lrc", ".LRC", ".srt", ".SRT"}

\* the inputs of the configuration being built fail: a file is missing,
\* the subtitle file cannot be read, has another extension or gave no
\* line, or the audio cannot be decoded
C26_InputFailure ==
    \/ fault \in {"audioMissing", "subtitleMissing", "unreadable", "decode"}
    \/ suffix \notin C26_Supported
    \/ Parsed /\ subs = <<>>

\* C26: when the inputs of a configuration fail, its build stops before
\* the media directory is created, before any clip is exported and before
\* the package is written: it never gets past the loading of the audio,
\* and nothing of that configuration is on disk.
C26_NoPartialOutput ==
    C26_InputFailure =>
        /\ pc \in {"check", "parse", "load", "aborted"}
        /\ disk[current] = noOutput
        /\ notes = <<>>

\* C26 witness: in a run for all configurations the deck of the first is
\* written, and the build of the second, whose subtitle file gave lines,
\* has stopped at an audio track that cannot be decoded, with nothing
\* written.
C26_Witness ==
    /\ pc = "aborted"
    /\ fault = "decode"
    /\ subs # <<>>
    /\ current = "mw"
    /\ disk["npr"].package
    /\ disk["mw"] = noOutput

\* C27: when the back is rendered and no grading pass has run since the
\* front was last rendered, the back flags no word and shows no table;
\* and the table of the back is always that of the ledger of the front
\* instance rendered last.
C27_BackShowsCurrentLedger ==
    side = "back" =>
        /\ ~lastPass.ran =>
              /\ backView.mistakeIndices = {}
              /\ backView.table = <<>>
        /\ ~backView.error => backView.table = tableRows(mistakes)

\* the indices (0-based) at or after the end of the reference at which the
\* pass just made had a committed token
C28_Beyond ==
    { i \in Len(correctWords)..(Len(lastPass'.completedWords) - 1) :
        lastPass'.completedWords[i + 1] # <<>> }

\* C28: in every grading pass a committed token at an index at or after
\* the end of the reference is graded incorrect, and the pass pushes
\* nothing to the ledger and reveals nothing on its account: what the
\* ledger gains is a hint marker or a token committed at an index inside
\* the reference, and the revealed set stays inside the reference and
\* gains at most the index of the hint of this pass.
C28_BeyondReference ==
    [][PassStep =>
        /\ \A i \in C28_Beyond :
              /\ C3_Graded(i, "incorrect")
              /\ ~C3_Graded(i, "correct")
        /\ \A e \in lastPass'.pushed : e[1] < Len(correctWords)
        /\ \A pair \in ledgerPairs(mistakes') \ ledgerPairs(mistakes) :
              \/ pair[2] = <<"#">>
              \/ \E i \in 0..(Len(correctWords) - 1) :
                    /\ i < Len(lastPass'.completedWords)
                    /\ pair = <<correctWords[i + 1],
                                lastPass'.completedWords[i + 1]>>
        /\ placeholderIndices' \subseteq 0..(Len(correctWords) - 1)
        /\ placeholderIndices' \ placeholderIndices
              \subseteq {lastPass'.revealed}]_vars

\* C29: in every reachable state of a front instance every key of the
\* ledger is a reference word and every value a non-empty list; and every
\* token a grading pass adds to the entry of a word, other than the hint
\* marker, is a token committed in that pass at an index of that reference
\* word which the pass graded incorrect and which is not revealed, so that
\* every token of the ledger has been one.
C29_LedgerSoundness ==
    /\ [](/\ \A k \in 1..Len(mistakes.keys) :
               /\ \E i \in 1..Len(correctWords) :
                     correctWords[i] = mistakes.keys[k]
               /\ Len(mistakes.vals[k]) >= 1
          /\ \A pair \in ledgerPairs(mistakes) :
               \/ pair[2] = <<"#">>
               \/ \E e \in recorded :
                     /\ e[1] < Len(correctWords)
                     /\ correctWords[e[1] + 1] = pair[1]
                     /\ e[2] = pair[2])
    /\ [][\A pair \in ledgerPairs(mistakes') \ ledgerPairs(mistakes) :
             \/ pair[2] = <<"#">>
             \/ \E i \in 0..(Len(correctWords) - 1) :
                   /\ i < Len(lastPass'.completedWords)
                   /\ pair = <<correctWords[i + 1],
                               lastPass'.completedWords[i + 1]>>
                   /\ C3_Graded(i, "incorrect")
                   /\ i \notin placeholderIndices'
                   /\ <<i, pair[2]>> \in recorded']_vars

\* C29 witness: the ledger holds, for one reference word, a token typed
\* at one of its indices and then a second one, and for another reference
\* word the hint marker alone.
C29_Witness ==
    /\ side = "front"
    /\ \E k \in 1..Len(mistakes.keys) :
          /\ Len(mistakes.vals[k]) >= 2
          /\ \A j \in 1..Len(mistakes.vals[k]) : mistakes.vals[k][j] # <<"#">>
    /\ \E k \in 1..Len(mistakes.keys) : mistakes.vals[k] = << <<"#">> >>

\* C30: when checkTyping runs on an input that ends with "#" and the text
\* before the "#" has at least as many tokens as the reference has words,
\* the "#" is removed and nothing else: no word is appended to the input,
\* and the revealed set and the hint marks stay as they are.
C30_HintAtEnd ==
    [][(C6_HintStep
           /\ Len(C6_Tokens(C6_BeforeHint)) >= Len(correctWords))
          => /\ value' = C6_BeforeHint
             /\ placeholderIndices' = placeholderIndices
             /\ hintUsed' = hintUsed]_vars

\* C30 witness: a hint was asked for after as many tokens as the
\* reference has words, the last of them still in progress, and the pass
\* left the text before the "#".
C30_Witness ==
    /\ lastPass.ran
    /\ Len(lastPass.rawInput) >= 2
    /\ lastPass.rawInput[Len(lastPass.rawInput)] = "#"
    /\ lastPass.rawInput[Len(lastPass.rawInput) - 1] \notin {" ", "\n", "\t"}
    /\ value = SubSeq(lastPass.rawInput, 1, Len(lastPass.rawInput) - 1)
    /\ Len(C6_Tokens(value)) = Len(correctWords)
    /\ lastPass.revealed = -1

\* the timed lines of the LRC file being built, in file order
C31_Timed == C17_TimedLines(split(content, "\n"))

\* the timed line at place k has a text
C31_HasText(k) == C17_TextOf(C31_Timed[k]) # <<>>

\* the place, among the records emitted, of the record of the timed line
\* at place k
C31_RecordOf(k) == Cardinality({ j \in 1..k : C31_HasText(j) })

\* C31: parse_lrc emits no record for a timed line without text, yet the
\* record of the timed line before it ends at the timestamp of that line;
\* and when the last timed line of the file has no text, no record
\* emitted has the end -1.
C31_EmptyTextLineBounds ==
    (Parsed /\ suffix = ".lrc") =>
        /\ Len(subs) = C31_RecordOf(Len(C31_Timed))
        /\ \A k \in 2..Len(C31_Timed) :
              (~C31_HasText(k) /\ C31_HasText(k - 1)) =>
                  subs[C31_RecordOf(k - 1)].end_time_ms
                      = C17_StartOf(C31_Timed[k])
        /\ (Len(C31_Timed) >= 1 /\ ~C31_HasText(Len(C31_Timed))) =>
              \A j \in DOMAIN subs : subs[j].end_time_ms # -1

\* C31 witness: a file of a timed line with a text and, last, a timed
\* line without text has been parsed: the one record ends at the
\* timestamp of the last line.
C31_Witness ==
    /\ Parsed
    /\ suffix = ".lrc"
    /\ Len(C31_Timed) = 2
    /\ C31_HasText(1)
    /\ ~C31_HasText(2)
    /\ Len(subs) = 1
    /\ subs[1].start_time_ms = 2500
    /\ subs[1].end_time_ms = 1000

=============================================================================
